---- MODULE Spec2Model ----
(***************************************************************************)
(* explore-wiki: the related-articles endpoint (src/server/api.py), the    *)
(* lookup-title ETL (src/server/normalize.py) and the dump decompressor    *)
(* (src/server/decompDumps.py), as state machines.                         *)
(*                                                                         *)
(* Numbers.  Python floats are modelled by exact rationals with a fixed    *)
(* denominator: a distance d is the integer d * ScoreScale (hundredths), a *)
(* popularity p is the integer p * PopularityCeiling (sevenths), and a     *)
(* final score f is the integer f * 100 * ScoreScale * PopularityCeiling.  *)
(* Page-view counts of the catalogue are of the form 10^k - 1, so that     *)
(* log10(pageviews + 1) is the integer k and the model's arithmetic is     *)
(* exact.                                                                  *)
(***************************************************************************)
EXTENDS Integers, Sequences, FiniteSets, TLC

VARIABLES
    phase,        \* "etl" | "normalized" | "serving": the deployment's stage
    articles,     \* the articles table: article_id -> row
    etl_log,      \* what the last run of normalize_database printed
    index_kind,   \* the kind of index read at start-up: "ivf" | "flat"
    req,          \* per request thread: the locals of get_related
    disk,         \* decompDumps: file name -> "absent" or the chunks it holds
    dpc,          \* decompDumps: position of the running script
    dfile,        \* decompDumps: index into FILES_TO_DECOMPRESS of main's loop
    skipped,      \* decompDumps: files whose run took the [SKIP] branch
    runs          \* decompDumps: runs of the script started so far

vars == <<phase, articles, etl_log, index_kind, req, disk, dpc, dfile, skipped, runs>>

serveVars == <<phase, articles, etl_log, index_kind, req>>
decompVars == <<disk, dpc, dfile, skipped, runs>>

(***************************************************************************)
(* Bounds of the model.                                                    *)
(***************************************************************************)
\* Neighbours an approximate (IVF) search may fail to find.
MaxMissed == 2
\* Request threads of the threaded specification.
NumThreads == 2
\* Runs of the decompression script.
MaxRuns == 3
\* 16 MB buffers a dump decompresses to.
SourceChunks == 2

(***************************************************************************)
(* Program constants.                                                      *)
(***************************************************************************)
\* WEIGHT_SEMANTIC = 0.70 and WEIGHT_POPULARITY = 0.30, in percent.
WEIGHT_SEMANTIC == 70
WEIGHT_POPULARITY == 30
CANDIDATE_POOL_SIZE == 50
RESULTS_TO_RETURN == 7
\* int(final_score * 100); distances are held in the same hundredths.
ScoreScale == 100
\* math.log10(pageviews + 1) / 7.0
PopularityCeiling == 7

(***************************************************************************)
(* Python str operations, on TLA+ strings.                                 *)
(***************************************************************************)
UpperLetters == "ABCDEFGHIJKLMNOPQRSTUVWXYZ"
LowerLetters == "abcdefghijklmnopqrstuvwxyz"

Ch(s, i) == SubSeq(s, i, i)

\* Upper-case letter -> its lower-case letter.
LowerOf ==
    [c \in {Ch(UpperLetters, i) : i \in 1..Len(UpperLetters)} |->
        Ch(LowerLetters, CHOOSE i \in 1..Len(UpperLetters) : Ch(UpperLetters, i) = c)]

\* str.lower() of one character.
LowerChar(c) == IF c \in DOMAIN LowerOf THEN LowerOf[c] ELSE c

RECURSIVE LowerFrom(_, _)
LowerFrom(s, i) ==
    IF i > Len(s) THEN "" ELSE LowerChar(Ch(s, i)) \o LowerFrom(s, i + 1)

\* s.lower()
str_lower(s) == LowerFrom(s, 1)

RECURSIVE ReplaceFrom(_, _, _, _)
ReplaceFrom(s, old, new, i) ==
    IF i > Len(s) THEN ""
    ELSE (IF Ch(s, i) = old THEN new ELSE Ch(s, i)) \o ReplaceFrom(s, old, new, i + 1)

\* s.replace(old, new) for a one-character old
str_replace(s, old, new) == ReplaceFrom(s, old, new, 1)

\* s.startswith(p)
str_startswith(s, p) == Len(p) <= Len(s) /\ SubSeq(s, 1, Len(p)) = p

\* m in s
str_contains(s, m) ==
    \E i \in 1..(Len(s) - Len(m) + 1) : SubSeq(s, i, i + Len(m) - 1) = m

(***************************************************************************)
(* Python's None: a nullable value is the empty tuple or a one-tuple.      *)
(***************************************************************************)
None == <<>>
Some(v) == <<v>>
IsNone(o) == o = <<>>
Get(o) == o[1]

Min(a, b) == IF a <= b THEN a ELSE b
Abs(a) == IF a >= 0 THEN a ELSE -a

\* Python's int(): truncation toward zero of the rational a / b, b > 0.
PyInt(a, b) == IF a >= 0 THEN a \div b ELSE -((-a) \div b)

RECURSIVE Log10(_)
\* math.log10(n) for n a power of ten, n >= 1
Log10(n) == IF n < 10 THEN 0 ELSE 1 + Log10(n \div 10)

(***************************************************************************)
(* The data the offline jobs left behind: the rows of the articles table   *)
(* of metadata.db and the vectors of index.faiss.                          *)
(***************************************************************************)
Row(t, pv) == [title |-> t, pageviews |-> pv, lookup_title |-> None]

\* article_id -> row, as loaded before normalize_database has run.  Titles
\* keep their original case and spacing; rows 3 and 4 differ in case only,
\* row 16 has an empty title, row 15 has no vector.
Catalogue ==
    (1 :> Row("Albert_Einstein", Some(9999999))) @@
    (2 :> Row("Isaac Newton", Some(999999))) @@
    (3 :> Row("US", Some(99999))) @@
    (4 :> Row("Us", Some(999))) @@
    (5 :> Row("Category:Physics", Some(99))) @@
    (6 :> Row("List of physicists", Some(9))) @@
    (7 :> Row("Mercury_(disambiguation)", Some(0))) @@
    (8 :> Row("TALK:Us", None)) @@
    (9 :> Row("Niels_Bohr", None)) @@
    (10 :> Row("Max_Planck", Some(99999999))) @@
    (11 :> Row("Marie_Curie", Some(9))) @@
    (12 :> Row("Paul_Dirac", Some(9))) @@
    (13 :> Row("Enrico_Fermi", Some(0))) @@
    (15 :> Row("Lise_Meitner", Some(99))) @@
    (16 :> Row("", None))

\* article id -> the coordinate of its vector, in hundredths.  Ids 1 and 11
\* hold the same vector; id 14 has a vector and no row (a stale id).
Embedding ==
    (1 :> 0) @@ (11 :> 0) @@ (14 :> 5) @@ (9 :> 10) @@ (5 :> 12) @@
    (12 :> 16) @@ (2 :> 20) @@ (6 :> 25) @@ (3 :> 30) @@ (4 :> 45) @@
    (7 :> 50) @@ (13 :> 60) @@ (8 :> 70) @@ (10 :> 250)

\* The index's metric between two stored vectors, in hundredths.
Distance(a, b) == Abs(Embedding[a] - Embedding[b])

\* The titles clients ask for.
RequestTitles ==
    {"Albert Einstein", "albert_einstein", "ALBERT_EINSTEIN", "Isaac Newton",
     "US", "Niels_Bohr", "Max_Planck", "Marie_Curie", "Lise_Meitner",
     "Category:Physics", "Zzzznotreal Title Xyz"}

(***************************************************************************)
(* normalize.py                                                            *)
(***************************************************************************)
\* The key normalize_database stores for a title (line 40).
etl_lookup_title(title) == str_lower(title)

\* The rows the UPDATE of line 45 rewrites: lookup_title IS NULL and the
\* title is truthy.
RowsToNormalize ==
    {id \in DOMAIN articles :
        IsNone(articles[id].lookup_title) /\ articles[id].title # ""}

\* A run that reaches the commit and the CREATE INDEX.
NormalizeDatabase ==
    /\ phase \in {"etl", "normalized"}
    /\ articles' = [id \in DOMAIN articles |->
                      IF id \in RowsToNormalize
                      THEN [articles[id] EXCEPT
                              !.lookup_title = Some(etl_lookup_title(articles[id].title))]
                      ELSE articles[id]]
    /\ etl_log' = IF RowsToNormalize = {} THEN "already normalized" ELSE "normalized"
    /\ phase' = "normalized"
    /\ UNCHANGED <<index_kind, req, decompVars>>

\* A run in which sqlite raises: the except branch rolls the updates back.
NormalizeDatabaseError ==
    /\ phase \in {"etl", "normalized"}
    /\ etl_log' = "error"
    /\ UNCHANGED <<phase, articles, index_kind, req, decompVars>>

(***************************************************************************)
(* api.py: start-up and helpers                                            *)
(***************************************************************************)
\* Lines 24-43: the index is read, the one connection `db` is opened.
StartServer ==
    /\ phase = "normalized"
    /\ phase' = "serving"
    /\ UNCHANGED <<articles, etl_log, index_kind, req, decompVars>>

\* normalize_popularity, in sevenths: min(1.0, log10(pageviews + 1) / 7.0).
normalize_popularity(pageviews) ==
    IF IsNone(pageviews) \/ Get(pageviews) <= 0
    THEN 0
    ELSE Min(PopularityCeiling, Log10(Get(pageviews) + 1))

meta_prefixes ==
    <<"wikipedia:", "template:", "category:", "portal:",
      "help:", "user:", "talk:", "file:", "list of">>

disambiguation_marker == "(disambiguation)"

\* Lines 62-66: the two tests, on the lower-cased title.
has_meta_mark(lower) ==
    \/ \E k \in 1..Len(meta_prefixes) : str_startswith(lower, meta_prefixes[k])
    \/ str_contains(lower, disambiguation_marker)

is_meta_page_case_sensitive(title) == has_meta_mark(title)

is_meta_page(title) == has_meta_mark(str_lower(title))

\* The key get_related looks a title up by (line 75).
serve_lookup_key(title) == str_lower(str_replace(title, " ", "_"))

(***************************************************************************)
(* The vector index (faiss), as get_related calls it.                      *)
(***************************************************************************)
\* faiss pads a result that has fewer than k neighbours with id -1.
PadEntry == [id |-> -1, dist |-> 1000000]

\* Whether neighbour a comes before neighbour b in the result for query q:
\* ascending distance; the order among equal distances is the index's.
Closer(q, a, b, tie) ==
    \/ Distance(q, a) < Distance(q, b)
    \/ /\ Distance(q, a) = Distance(q, b)
       /\ IF tie = "asc" THEN a < b ELSE a > b

RECURSIVE SortByDistance(_, _, _)
SortByDistance(q, found, tie) ==
    IF found = {} THEN <<>>
    ELSE LET first == CHOOSE a \in found :
                          \A b \in found \ {a} : Closer(q, a, b, tie)
         IN <<[id |-> first, dist |-> Distance(q, first)]>>
                \o SortByDistance(q, found \ {first}, tie)

\* query id, tie order -> every stored vector, nearest first.
NearestFirst ==
    [q \in DOMAIN Embedding, tie \in {"asc", "desc"} |->
        SortByDistance(q, DOMAIN Embedding, tie)]

PadTo(hits, k) ==
    SubSeq(hits, 1, Min(k, Len(hits))) \o [i \in 1..(k - Len(hits)) |-> PadEntry]

\* index.search(embedding of q, k): the k nearest of the vectors the search
\* visits, padded to k entries.
Search(q, k, missed, tie) ==
    PadTo(SelectSeq(NearestFirst[q, tie], LAMBDA n : n.id \notin missed), k)

\* The sets of stored vectors an inverted-file index probing nprobe lists
\* may fail to visit.
ApproximateMissSets ==
    {m \in SUBSET DOMAIN Embedding : Cardinality(m) <= MaxMissed}

\* An exact (flat) index visits every vector.
MissSets == IF index_kind = "flat" THEN {{}} ELSE ApproximateMissSets

(***************************************************************************)
(* api.py: get_related, one action per step between two calls out.         *)
(***************************************************************************)
IdleReq ==
    [pc |-> "idle", title |-> "", lookup_key |-> "", cursor |-> None,
     article_id |-> 0, indices |-> <<>>, distances |-> <<>>,
     candidate_ids |-> <<>>, candidate_dists |-> <<>>, candidate_data |-> <<>>,
     ranked_results |-> <<>>, store_failed |-> FALSE, response |-> None]

Response(status, error, searched_for, body) ==
    [status |-> status, error |-> error, searched_for |-> searched_for, body |-> body]

\* What Flask answers when the view raises: 500, no body of ours.
UnhandledFault == Response(500, "Internal Server Error", <<>>, <<>>)

\* Lines 73-75: a cursor of the process-wide connection, and the key.
Start(r, title) ==
    /\ phase = "serving"
    /\ req[r].pc = "idle"
    /\ req' = [req EXCEPT ![r] = [IdleReq EXCEPT
                  !.pc = "resolve",
                  !.title = title,
                  !.cursor = Some("db"),
                  !.lookup_key = serve_lookup_key(title)]]
    /\ UNCHANGED <<phase, articles, etl_log, index_kind, decompVars>>

\* Lines 78-87: the title lookup.
ResolveTitle(r) ==
    /\ req[r].pc = "resolve"
    /\ LET matches == {id \in DOMAIN articles :
                          articles[id].lookup_title = Some(req[r].lookup_key)}
       IN \/ \* cursor.execute raises: nothing in get_related catches it
             req' = [req EXCEPT ![r].pc = "done",
                                ![r].cursor = None,
                                ![r].store_failed = TRUE,
                                ![r].response = Some(UnhandledFault)]
          \/ /\ matches = {}
             /\ req' = [req EXCEPT ![r].pc = "done",
                                   ![r].cursor = None,
                                   ![r].response = Some(Response(404,
                                       "Article not found", <<req[r].lookup_key>>, <<>>))]
          \/ \* fetchone(): the first of the matching rows, in the store's order
             \E id \in matches :
                req' = [req EXCEPT ![r].pc = "retrieve", ![r].article_id = id]
    /\ UNCHANGED <<phase, articles, etl_log, index_kind, decompVars>>

\* Lines 96-104: the locals after index.search returned `found`.
AfterSearch(locals, found) ==
    [locals EXCEPT
        !.pc = "fetch",
        !.indices = [i \in 1..Len(found) |-> found[i].id],
        !.distances = [i \in 1..Len(found) |-> found[i].dist],
        !.candidate_ids = [i \in 1..(Len(found) - 1) |-> found[i + 1].id],
        !.candidate_dists = [i \in 1..(Len(found) - 1) |-> found[i + 1].dist]]

\* Lines 89-104: reconstruct, search, and the candidate pool.
Retrieve(r) ==
    /\ req[r].pc = "retrieve"
    /\ LET q == req[r].article_id IN
       \/ /\ q \notin DOMAIN Embedding
          /\ req' = [req EXCEPT ![r].pc = "done",
                                ![r].cursor = None,
                                ![r].response = Some(Response(404,
                                    "Embedding reconstruction failed", <<>>, <<>>))]
       \/ /\ q \in DOMAIN Embedding
          /\ \E missed \in MissSets, tie \in {"asc", "desc"} :
                req' = [req EXCEPT ![r] =
                           AfterSearch(req[r], Search(q, CANDIDATE_POOL_SIZE + 1, missed, tie))]
    /\ UNCHANGED <<phase, articles, etl_log, index_kind, decompVars>>

\* Lines 106-120: the one batched read of the candidates' rows.
FetchSignals(r) ==
    /\ req[r].pc = "fetch"
    /\ \/ req' = [req EXCEPT ![r].pc = "done",
                             ![r].cursor = None,
                             ![r].store_failed = TRUE,
                             ![r].response = Some(UnhandledFault)]
       \/ LET wanted == {req[r].candidate_ids[i] : i \in 1..Len(req[r].candidate_ids)}
          IN req' = [req EXCEPT ![r].pc = "rank",
                                ![r].candidate_data =
                                    [id \in wanted \cap DOMAIN articles |-> articles[id]]]
    /\ UNCHANGED <<phase, articles, etl_log, index_kind, decompVars>>

\* Line 135, times 100 * ScoreScale * PopularityCeiling.
final_score(dist, pageviews) ==
    (ScoreScale - dist) * PopularityCeiling * WEIGHT_SEMANTIC
        + normalize_popularity(pageviews) * ScoreScale * WEIGHT_POPULARITY

\* Line 139: int(final_score * 100).
presentation_score(final) == PyInt(final, ScoreScale * PopularityCeiling)

RECURSIVE Rerank(_, _, _, _)
\* Lines 123-140: the loop over the candidates, from position i on.  `final`
\* and `cand` are the loop's locals; the response carries title and score.
Rerank(ids, dists, data, i) ==
    IF i > Len(ids) THEN <<>>
    ELSE IF ids[i] \notin DOMAIN data \/ is_meta_page(data[ids[i]].title)
         THEN Rerank(ids, dists, data, i + 1)
         ELSE LET final == final_score(dists[i], data[ids[i]].pageviews)
              IN <<[title |-> data[ids[i]].title,
                    score |-> presentation_score(final),
                    final |-> final,
                    cand |-> i]>> \o Rerank(ids, dists, data, i + 1)

\* The key of line 143's sort.
SortKey(e) == e.score

\* e put after the entries of the sorted list whose key is not smaller.
InsertDesc(e, sorted) ==
    LET n == Cardinality({j \in 1..Len(sorted) : SortKey(sorted[j]) >= SortKey(e)})
    IN SubSeq(sorted, 1, n) \o <<e>> \o SubSeq(sorted, n + 1, Len(sorted))

RECURSIVE SortDesc(_)
\* list.sort(key=..., reverse=True): descending and stable.
SortDesc(list) ==
    IF list = <<>> THEN <<>>
    ELSE InsertDesc(list[Len(list)], SortDesc(SubSeq(list, 1, Len(list) - 1)))

TruncateNever(list) == list

\* ranked_results[:RESULTS_TO_RETURN]
Truncate(list) == SubSeq(list, 1, Min(Len(list), RESULTS_TO_RETURN))

\* jsonify of the entries: title and score.
Body(top) == [j \in 1..Len(top) |-> [title |-> top[j].title, score |-> top[j].score]]

\* Line 145: the locals and the response once ranked_results is sorted.
AfterRank(locals, ranked) ==
    [locals EXCEPT
        !.pc = "done",
        !.cursor = None,
        !.ranked_results = ranked,
        !.response = Some(Response(200, "", <<>>, Body(Truncate(ranked))))]

\* Lines 122-145: re-rank, sort, cut, answer.
Rank(r) ==
    /\ req[r].pc = "rank"
    /\ req' = [req EXCEPT ![r] =
                  AfterRank(req[r], SortDesc(Rerank(req[r].candidate_ids,
                      req[r].candidate_dists, req[r].candidate_data, 1)))]
    /\ UNCHANGED <<phase, articles, etl_log, index_kind, decompVars>>

(***************************************************************************)
(* decompDumps.py                                                          *)
(***************************************************************************)
FILES_TO_DECOMPRESS == <<"enwiki-latest-page.sql.gz", "enwiki-latest-pagelinks.sql.gz">>

\* gz_path[:-3]
SqlPath(gz_path) == SubSeq(gz_path, 1, Len(gz_path) - 3)

\* os.path.exists(path); a file on disk holds Some(number of 16 MB chunks).
Exists(path) == ~IsNone(disk[path])

\* A file holding the whole decompressed dump.
Complete(content) == content = Some(SourceChunks)

\* main's loop moves on to the next file, or main returns.
NextFile ==
    /\ dfile' = dfile + 1
    /\ dpc' = "loop"

\* `python decompDumps.py`: main starts its loop.
RunScript ==
    /\ dpc = "idle"
    /\ runs < MaxRuns
    /\ runs' = runs + 1
    /\ dfile' = 1
    /\ dpc' = "loop"
    /\ UNCHANGED <<disk, skipped, serveVars>>

\* Lines 21-23: the output exists, the file counts as done.
DecompressSkip ==
    /\ dpc = "loop" /\ dfile <= Len(FILES_TO_DECOMPRESS)
    /\ LET sql_path == SqlPath(FILES_TO_DECOMPRESS[dfile]) IN
       /\ Exists(sql_path)
       /\ skipped' = skipped \cup {[path |-> sql_path, content |-> disk[sql_path]]}
    /\ NextFile
    /\ UNCHANGED <<disk, runs, serveVars>>

\* Lines 25-27: no output and no source.
DecompressNoSource ==
    /\ dpc = "loop" /\ dfile <= Len(FILES_TO_DECOMPRESS)
    /\ ~Exists(SqlPath(FILES_TO_DECOMPRESS[dfile]))
    /\ ~Exists(FILES_TO_DECOMPRESS[dfile])
    /\ NextFile
    /\ UNCHANGED <<disk, skipped, runs, serveVars>>

\* Lines 34-36: open(sql_path, 'wb') creates the output, empty.
DecompressOpen ==
    /\ dpc = "loop" /\ dfile <= Len(FILES_TO_DECOMPRESS)
    /\ ~Exists(SqlPath(FILES_TO_DECOMPRESS[dfile]))
    /\ Exists(FILES_TO_DECOMPRESS[dfile])
    /\ disk' = [disk EXCEPT ![SqlPath(FILES_TO_DECOMPRESS[dfile])] = Some(0)]
    /\ dpc' = "copying"
    /\ UNCHANGED <<dfile, skipped, runs, serveVars>>

\* Line 37: shutil.copyfileobj writes one more buffer.
CopyChunk ==
    /\ dpc = "copying"
    /\ LET sql_path == SqlPath(FILES_TO_DECOMPRESS[dfile]) IN
       /\ Get(disk[sql_path]) < SourceChunks
       /\ disk' = [disk EXCEPT ![sql_path] = Some(Get(disk[sql_path]) + 1)]
    /\ UNCHANGED <<dpc, dfile, skipped, runs, serveVars>>

\* Lines 37-45: the copy reached the end of the source.
CopyDone ==
    /\ dpc = "copying"
    /\ Complete(disk[SqlPath(FILES_TO_DECOMPRESS[dfile])])
    /\ NextFile
    /\ UNCHANGED <<disk, skipped, runs, serveVars>>

\* Lines 47-51: an Exception while copying (a corrupt source, a full disk);
\* the partial output is removed.
CopyError ==
    /\ dpc = "copying"
    /\ disk' = [disk EXCEPT ![SqlPath(FILES_TO_DECOMPRESS[dfile])] = None]
    /\ NextFile
    /\ UNCHANGED <<skipped, runs, serveVars>>

\* A KeyboardInterrupt (not an Exception, so line 47 does not catch it) or a
\* kill of the process: the script ends where it is, the disk stays as it is.
Interrupt ==
    /\ dpc \in {"loop", "copying"}
    /\ dpc' = "idle"
    /\ UNCHANGED <<disk, dfile, skipped, runs, serveVars>>

\* Line 61: the loop is over, main returns.
MainDone ==
    /\ dpc = "loop" /\ dfile > Len(FILES_TO_DECOMPRESS)
    /\ dpc' = "idle"
    /\ UNCHANGED <<disk, dfile, skipped, runs, serveVars>>

(***************************************************************************)
(* Specifications                                                          *)
(***************************************************************************)
DecompIdle ==
    /\ disk = [path \in {FILES_TO_DECOMPRESS[i] : i \in 1..Len(FILES_TO_DECOMPRESS)}
                        \cup {SqlPath(FILES_TO_DECOMPRESS[i]) : i \in 1..Len(FILES_TO_DECOMPRESS)}
                 |-> None]
    /\ dpc = "idle"
    /\ dfile = 0
    /\ skipped = {}
    /\ runs = 0

\* The service, one request at a time, over either kind of index.
Init ==
    /\ phase = "etl"
    /\ articles = Catalogue
    /\ etl_log = ""
    /\ index_kind \in {"ivf", "flat"}
    /\ req = [r \in {1} |-> IdleReq]
    /\ DecompIdle

Next ==
    \/ NormalizeDatabase
    \/ NormalizeDatabaseError
    \/ StartServer
    \/ \E r \in DOMAIN req, title \in RequestTitles : Start(r, title)
    \/ \E r \in DOMAIN req : ResolveTitle(r)
    \/ \E r \in DOMAIN req : Retrieve(r)
    \/ \E r \in DOMAIN req : FetchSignals(r)
    \/ \E r \in DOMAIN req : Rank(r)

Spec == Init /\ [][Next]_vars

\* The service under Flask's threaded server: NumThreads requests in flight,
\* over an exact index.
InitThreads ==
    /\ phase = "etl"
    /\ articles = Catalogue
    /\ etl_log = ""
    /\ index_kind = "flat"
    /\ req = [r \in 1..NumThreads |-> IdleReq]
    /\ DecompIdle

SpecThreads == InitThreads /\ [][Next]_vars

\* The decompression script, run up to MaxRuns times over the dumps that
\* were downloaded (each source present or not).
InitDecomp ==
    /\ phase = "etl"
    /\ articles = Catalogue
    /\ etl_log = ""
    /\ index_kind = "flat"
    /\ req = [r \in {1} |-> IdleReq]
    /\ disk \in [{FILES_TO_DECOMPRESS[i] : i \in 1..Len(FILES_TO_DECOMPRESS)}
                    \cup {SqlPath(FILES_TO_DECOMPRESS[i]) : i \in 1..Len(FILES_TO_DECOMPRESS)}
                 -> {None, Some(SourceChunks)}]
    /\ \A i \in 1..Len(FILES_TO_DECOMPRESS) : ~Exists(SqlPath(FILES_TO_DECOMPRESS[i]))
    /\ dpc = "idle"
    /\ dfile = 0
    /\ skipped = {}
    /\ runs = 0

NextDecomp ==
    \/ RunScript
    \/ DecompressSkip
    \/ DecompressNoSource
    \/ DecompressOpen
    \/ CopyChunk
    \/ CopyDone
    \/ CopyError
    \/ Interrupt
    \/ MainDone

SpecDecomp == InitDecomp /\ [][NextDecomp]_vars

(***************************************************************************)
(* Properties                                                              *)
(***************************************************************************)
\* The request answered with a result list.
Succeeded(r) ==
    /\ req[r].pc = "done"
    /\ ~IsNone(req[r].response)
    /\ Get(req[r].response).status = 200

ResultList(r) == Get(req[r].response).body

\* The meta prefixes and the marker, as the filter's contract lists them.
ContractPrefixes ==
    {"wikipedia:", "template:", "category:", "portal:", "help:", "user:",
     "talk:", "file:", "list of"}

ContractMetaLower(lower) ==
    \/ \E p \in ContractPrefixes : str_startswith(lower, p)
    \/ str_contains(lower, "(disambiguation)")

ContractMeta(title) == ContractMetaLower(str_lower(title))

\* The candidates of request r that have a row in the store and a title
\* that is no meta page, counted by position in the candidate list.
Survivors(r) ==
    {i \in 1..Len(req[r].candidate_ids) :
        /\ req[r].candidate_ids[i] \in DOMAIN articles
        /\ ~ContractMeta(articles[req[r].candidate_ids[i]].title)}

\* C1: no self-candidacy.  The candidate pool get_related builds for a
\* resolved article id never contains that id, and no returned result is
\* the query article's own title row.
C1_NoSelfCandidacy ==
    \A r \in DOMAIN req :
        \A i \in 1..Len(req[r].candidate_ids) :
            req[r].candidate_ids[i] # req[r].article_id

\* C2: score bounds.  Every score of a returned result list is an integer
\* between 0 and 100.
C2_ScoreBounds ==
    \A r \in DOMAIN req :
        Succeeded(r) =>
            \A j \in 1..Len(ResultList(r)) :
                /\ ResultList(r)[j].score >= 0
                /\ ResultList(r)[j].score <= 100

\* C3: write-time and read-time normalization agree.  Once the ETL has
\* normalized the store, the lookup key stored for every titled row is the
\* key the serving resolver computes for that row's title.
C3_WriteReadNormalizationAgree ==
    phase # "etl" =>
        \A id \in DOMAIN articles :
            articles[id].title # "" =>
                articles[id].lookup_title = Some(serve_lookup_key(articles[id].title))

\* C4: lookup-key uniqueness.  After the ETL normalization, no two rows
\* with distinct ids share a lookup key.
C4_LookupKeyUnique ==
    phase # "etl" =>
        \A a, b \in DOMAIN articles :
            (a # b /\ ~IsNone(articles[a].lookup_title))
                => articles[a].lookup_title # articles[b].lookup_title

\* C5: StoreUnavailable handling.  A request whose store read failed ends
\* with a service-unavailable (503) response, not with an unhandled fault,
\* and with no result list.
C5_StoreFailureIsServiceUnavailable ==
    \A r \in DOMAIN req :
        (req[r].pc = "done" /\ req[r].store_failed) =>
            /\ Get(req[r].response).status = 503
            /\ Get(req[r].response).body = <<>>

\* C6: per-request store handle.  No two requests in flight hold cursors of
\* the same store connection at the same time.
C6_PerRequestStoreHandle ==
    \A r1, r2 \in DOMAIN req :
        (r1 # r2 /\ ~IsNone(req[r1].cursor) /\ ~IsNone(req[r2].cursor))
            => Get(req[r1].cursor) # Get(req[r2].cursor)

\* C7: filter completeness.  No title of a returned result list starts,
\* lower-cased, with a meta prefix or contains the disambiguation marker.
C7_FilterCompleteness ==
    \A r \in DOMAIN req :
        Succeeded(r) =>
            \A j \in 1..Len(ResultList(r)) : ~ContractMeta(ResultList(r)[j].title)

\* C7 witness: a non-empty result list was returned for a request whose
\* fetched candidates held a meta page written in another case than the
\* prefix list ("TALK:Us").
C7_MetaCandidateFiltered ==
    \E r \in DOMAIN req :
        /\ Succeeded(r)
        /\ Len(ResultList(r)) > 0
        /\ \E id \in DOMAIN req[r].candidate_data :
              req[r].candidate_data[id].title = "TALK:Us"

\* C8: ranking order.  The returned list is in descending order of the
\* blended final score before truncation to an integer, and candidates of
\* equal final score keep the retriever's order.
C8_SortedByFinalScore ==
    \A r \in DOMAIN req :
        Succeeded(r) =>
            \A i, j \in 1..Len(ResultList(r)) :
                i < j =>
                    \/ req[r].ranked_results[i].final > req[r].ranked_results[j].final
                    \/ /\ req[r].ranked_results[i].final = req[r].ranked_results[j].final
                       /\ req[r].ranked_results[i].cand < req[r].ranked_results[j].cand

\* C9: result-size bound.  A returned result list has min(7, n) entries,
\* where n counts the candidates that have a row in the store and pass the
\* meta-page filter; a candidate without a row costs no error.
C9_ResultSize ==
    \A r \in DOMAIN req :
        Succeeded(r) =>
            Len(ResultList(r)) = Min(7, Cardinality(Survivors(r)))

\* C9 witness: a result list was returned although a candidate id (14) has
\* no row, more than 7 candidates survived, and 7 were returned.
C9_TruncatedWithStaleCandidate ==
    \E r \in DOMAIN req :
        /\ Succeeded(r)
        /\ \E i \in 1..Len(req[r].candidate_ids) : req[r].candidate_ids[i] = 14
        /\ Cardinality(Survivors(r)) > 7
        /\ Len(ResultList(r)) = 7

\* C10: resume safety of decompression.  Whenever a run of decompress_file
\* takes the skip-if-output-exists branch, the output it found is the
\* complete decompression of the source.
C10_SkippedOutputIsComplete ==
    \A s \in skipped : Complete(s.content)

====
